---------------------------- MODULE Spec2Model ----------------------------
(***************************************************************************)
(* Three grid traversals of the repository, each as a state machine:       *)
(*   filling_algorithm.py   flood_fill_dfs over FloodFillProblem           *)
(*   finding_long_way.py    find_longest_consecutive_path / dfs_longest    *)
(*   word_search.py         find_all_words / can_form_word_dfs             *)
(* A matrix is a sequence of rows, each a sequence of symbols; a cell is   *)
(* <<r, c>> with the 0-based indices of the source, so matrix[r][c] of the *)
(* source is m[r + 1][c + 1] here.                                         *)
(***************************************************************************)
EXTENDS Integers, Sequences, FiniteSets

VARIABLES
    \* filling_algorithm.py
    matrix,             \* problem.matrix, painted in place
    matrix0,            \* the matrix as it was handed to flood_fill_dfs
    start,              \* problem.initial
    target_color,       \* problem.target_color
    replacement_color,  \* problem.replacement_color
    stack,              \* the local stack of flood_fill_dfs
    pops,               \* how many times stack.pop() has run
    paints,             \* per cell, how many times it was painted
    fpc,                \* "idle" | "start" | "loop" | "done"
    \* finding_long_way.py
    lmatrix,            \* problem.matrix
    start_char,         \* problem.start_char (a code point)
    lpos,               \* the (r, c) of the double for loop, in row-major order
    longest_path,       \* the local longest_path
    lstack,             \* the chain of nested dfs_longest calls
    lreturned,          \* the value find_longest_consecutive_path returned
    lpc,                \* "idle" | "scan" | "dfs" | "done" | "error"
    \* word_search.py
    board,              \* problem.board
    dictionary,         \* problem.dictionary, in iteration order
    wi,                 \* the position of w in the dictionary
    wpos,               \* the (r, c) of the double for loop, in row-major order
    wstack,             \* the chain of nested dfs calls that marked their cell
    visited,            \* the set handed to dfs
    result,             \* the local result of find_all_words
    wreturned,          \* what find_all_words returned
    wpc                 \* "idle" | "words" | "scan" | "dfs" | "done" | "error"

fvars == <<matrix, matrix0, start, target_color, replacement_color, stack, pops, paints, fpc>>
lvars == <<lmatrix, start_char, lpos, longest_path, lstack, lreturned, lpc>>
wvars == <<board, dictionary, wi, wpos, wstack, visited, result, wreturned, wpc>>
vars == <<fvars, lvars, wvars>>

(***************************************************************************)
(* Bounds                                                                  *)
(***************************************************************************)
FillMaxCells == 6

LongMaxCells == 4

WordMaxCells == 4

WordMaxLen == 3

(***************************************************************************)
(* Grids                                                                   *)
(***************************************************************************)
NumRows(m) == Len(m)

NumCols(m) == IF Len(m) > 0 THEN Len(m[1]) ELSE 0

InBounds(m, cell) ==
    /\ 0 <= cell[1] /\ cell[1] < NumRows(m)
    /\ 0 <= cell[2] /\ cell[2] < NumCols(m)

At(m, cell) == m[cell[1] + 1][cell[2] + 1]

CellsOf(m) == (0 .. NumRows(m) - 1) \X (0 .. NumCols(m) - 1)

Shapes(maxCells) ==
    {s \in (1 .. maxCells) \X (1 .. maxCells) : s[1] * s[2] <= maxCells}

GridsOfShape(s, symbols) == [1 .. s[1] -> [1 .. s[2] -> symbols]]

Grids(maxCells, symbols) ==
    UNION {GridsOfShape(s, symbols) : s \in Shapes(maxCells)}

Last(s) == s[Len(s)]

Front(s) == SubSeq(s, 1, Len(s) - 1)

(***************************************************************************)
(* filling_algorithm.py                                                    *)
(***************************************************************************)
Colors == {"X", "C", "G"}

FillDeltasNoUp == <<<<0, 1>>, <<0, -1>>, <<1, 0>>>>

FillDeltas == <<<<0, 1>>, <<0, -1>>, <<1, 0>>, <<-1, 0>>>>

\* FloodFillProblem.actions: the 4-neighbours of state, in the order of
\* deltas, that are in bounds and still hold target_color.
FillActions(m, state, target) ==
    LET cand == [k \in 1 .. Len(FillDeltas) |->
                    <<state[1] + FillDeltas[k][1], state[2] + FillDeltas[k][2]>>]
        ok(cell) == InBounds(m, cell) /\ At(m, cell) = target
    IN  SelectSeq(cand, ok)

\* FloodFillProblem.result: paints the cell named by the action.
FillResult(m, action, replacement) ==
    [m EXCEPT ![action[1] + 1][action[2] + 1] = replacement]

\* The for loop of flood_fill_dfs over the list actions() returned: the
\* matrix after result() ran on each of them in turn.
RECURSIVE FillResultAll(_, _, _)
FillResultAll(m, acts, replacement) ==
    IF acts = <<>> THEN m
    ELSE FillResultAll(FillResult(m, acts[1], replacement), Tail(acts), replacement)

RECURSIVE CountPaints(_, _)
CountPaints(p, acts) ==
    IF acts = <<>> THEN p
    ELSE CountPaints([p EXCEPT ![acts[1]] = @ + 1], Tail(acts))

StartMatchesAlways(m, s, target) == TRUE

\* flood_fill_dfs, line 149: the start cell holds target_color.
StartMatches(m, s, target) == At(m, s) = target

\* The stack loop of a call that never returns is cut after FillMaxPops pops;
\* a call that returns pops at most once per cell (FillCapUnused).
FillMaxPops == FillMaxCells + 3

FillInit ==
    /\ matrix0 \in Grids(FillMaxCells, Colors)
    /\ matrix = matrix0
    /\ start \in CellsOf(matrix0)
    /\ target_color \in Colors
    /\ replacement_color \in Colors
    /\ stack = <<>>
    /\ pops = 0
    /\ paints = [cell \in CellsOf(matrix0) |-> 0]
    /\ fpc = "start"

\* flood_fill_dfs, lines 145-150: the start cell does not hold target_color.
FillReturnEarly ==
    /\ fpc = "start"
    /\ ~StartMatches(matrix, start, target_color)
    /\ fpc' = "done"
    /\ UNCHANGED <<matrix, matrix0, start, target_color, replacement_color, stack, pops, paints>>

\* flood_fill_dfs, lines 145-156: paint the start cell and push it.
FillPaintStart ==
    /\ fpc = "start"
    /\ StartMatches(matrix, start, target_color)
    /\ matrix' = FillResult(matrix, start, replacement_color)
    /\ paints' = [paints EXCEPT ![start] = @ + 1]
    /\ stack' = <<start>>
    /\ fpc' = "loop"
    /\ UNCHANGED <<matrix0, start, target_color, replacement_color, pops>>

\* One iteration of the while loop, lines 157-162.
FillPop ==
    /\ fpc = "loop"
    /\ stack # <<>>
    /\ pops < FillMaxPops
    /\ LET cur == Last(stack)
           acts == FillActions(matrix, cur, target_color)
       IN  /\ matrix' = FillResultAll(matrix, acts, replacement_color)
           /\ paints' = CountPaints(paints, acts)
           /\ stack' = Front(stack) \o acts
    /\ pops' = pops + 1
    /\ UNCHANGED <<matrix0, start, target_color, replacement_color, fpc>>

\* The while loop ends on the empty stack and flood_fill_dfs returns.
FillReturn ==
    /\ fpc = "loop"
    /\ stack = <<>>
    /\ fpc' = "done"
    /\ UNCHANGED <<matrix, matrix0, start, target_color, replacement_color, stack, pops, paints>>

(***************************************************************************)
(* finding_long_way.py                                                     *)
(* A character is its code point; chr() is defined on 0 .. MaxCodePoint    *)
(* and raises ValueError elsewhere.                                        *)
(***************************************************************************)
MaxCodePoint == 1114111

LongAlphabet == {65, 66, 67, 68, MaxCodePoint}

ChrInRange(n) == 0 <= n /\ n <= MaxCodePoint

LongSuccessorSame(c) == c

\* LongestConsecutivePathProblem.actions, line 86: ord(curr_char) + 1.
LongSuccessor(c) == c + 1

LongDeltas ==
    <<<<-1, -1>>, <<-1, 0>>, <<-1, 1>>, <<0, -1>>, <<0, 1>>, <<1, -1>>, <<1, 0>>, <<1, 1>>>>

\* LongestConsecutivePathProblem.actions: the 8-neighbours of state, in the
\* order of deltas, that are in bounds and hold next_char.
LongActions(m, state) ==
    LET next_char == LongSuccessor(At(m, state))
        cand == [k \in 1 .. Len(LongDeltas) |->
                    <<state[1] + LongDeltas[k][1], state[2] + LongDeltas[k][2]>>]
        ok(cell) == InBounds(m, cell) /\ At(m, cell) = next_char
    IN  SelectSeq(cand, ok)

\* The cell the double for loop of find_longest_consecutive_path is at.
CellAt(m, pos) == <<pos \div NumCols(m), pos % NumCols(m)>>

NumCells(m) == NumRows(m) * NumCols(m)

LongInit ==
    /\ lmatrix \in Grids(LongMaxCells, LongAlphabet) \cup {<<>>}
    /\ start_char \in LongAlphabet
    /\ lpos = 0
    /\ longest_path = 0
    /\ lstack = <<>>
    /\ lreturned = -1
    /\ lpc = "scan"

\* A call dfs_longest(problem, r, c) below the calls of stk: problem.actions
\* raises ValueError when chr() gets a number past MaxCodePoint; otherwise the
\* call starts its loop over children with best_len = 1.
LongCall(cell, stk) ==
    IF ChrInRange(LongSuccessor(At(lmatrix, cell)))
    THEN /\ lstack' = Append(stk, [cell |-> cell,
                                   children |-> LongActions(lmatrix, cell),
                                   idx |-> 1,
                                   best_len |-> 1])
         /\ lpc' = "dfs"
    ELSE /\ lstack' = <<>>
         /\ lpc' = "error"

\* find_longest_consecutive_path, lines 144-146: a cell that is not start_char.
LongScanSkip ==
    /\ lpc = "scan"
    /\ lpos < NumCells(lmatrix)
    /\ At(lmatrix, CellAt(lmatrix, lpos)) # start_char
    /\ lpos' = lpos + 1
    /\ UNCHANGED <<lmatrix, start_char, longest_path, lstack, lreturned, lpc>>

\* find_longest_consecutive_path, lines 146-147: dfs_longest from a start cell.
LongScanCall ==
    /\ lpc = "scan"
    /\ lpos < NumCells(lmatrix)
    /\ At(lmatrix, CellAt(lmatrix, lpos)) = start_char
    /\ LongCall(CellAt(lmatrix, lpos), <<>>)
    /\ UNCHANGED <<lmatrix, start_char, lpos, longest_path, lreturned>>

\* find_longest_consecutive_path, line 150.
LongReturn ==
    /\ lpc = "scan"
    /\ lpos = NumCells(lmatrix)
    /\ lreturned' = longest_path
    /\ lpc' = "done"
    /\ UNCHANGED <<lmatrix, start_char, lpos, longest_path, lstack>>

\* dfs_longest, lines 125-126: the recursive call on the next child.
LongDfsDescend ==
    /\ lpc = "dfs"
    /\ Last(lstack).idx <= Len(Last(lstack).children)
    /\ LongCall(Last(lstack).children[Last(lstack).idx], lstack)
    /\ UNCHANGED <<lmatrix, start_char, lpos, longest_path, lreturned>>

\* dfs_longest, line 129, and what the caller does with the value: lines
\* 126-128 in a nested call, lines 147-149 in find_longest_consecutive_path.
LongDfsReturn ==
    /\ lpc = "dfs"
    /\ Last(lstack).idx > Len(Last(lstack).children)
    /\ LET ret == Last(lstack).best_len
           n == Len(lstack)
       IN  IF n = 1
           THEN /\ longest_path' = IF ret > longest_path THEN ret ELSE longest_path
                /\ lpos' = lpos + 1
                /\ lstack' = <<>>
                /\ lpc' = "scan"
           ELSE /\ lstack' = [Front(lstack) EXCEPT
                                 ![n - 1].best_len = IF 1 + ret > @ THEN 1 + ret ELSE @,
                                 ![n - 1].idx = @ + 1]
                /\ UNCHANGED <<longest_path, lpos, lpc>>
    /\ UNCHANGED <<lmatrix, start_char, lreturned>>

(***************************************************************************)
(* word_search.py                                                          *)
(* A word is a sequence of letters; word[index] of the source is           *)
(* word[index + 1] here.                                                   *)
(***************************************************************************)
WordAlphabet == {"A", "T"}

WordsUpTo(n) == UNION {[1 .. k -> WordAlphabet] : k \in 0 .. n}

\* The dictionaries, in iteration order, of one word, or of two words one of
\* which has at most one letter.
Dictionaries(words, short) ==
    {<<w>> : w \in words}
        \cup {<<x[1], x[2]>> : x \in words \X short}
        \cup {<<x[2], x[1]>> : x \in words \X short}

ScenarioBoard == <<<<"C", "A", "T">>, <<"A", "T", "C">>>>

CAT == <<"C", "A", "T">>

ACT == <<"A", "C", "T">>

DOG == <<"D", "O", "G">>

\* The orders in which {"CAT", "ACT", "DOG"} may be iterated.
ScenarioDictionaries ==
    {d \in [1 .. 3 -> {CAT, ACT, DOG}] : {d[k] : k \in 1 .. 3} = {CAT, ACT, DOG}}

WordDeltas4 == <<<<-1, 0>>, <<0, -1>>, <<0, 1>>, <<1, 0>>>>

\* can_form_word_dfs, lines 92-101.
WordDeltas ==
    <<<<-1, -1>>, <<-1, 0>>, <<-1, 1>>, <<0, -1>>, <<0, 1>>, <<1, -1>>, <<1, 0>>, <<1, 1>>>>

NeverVisited(cell, vis) == FALSE

\* dfs, line 114.
IsVisited(cell, vis) == cell \in vis

KeepMark(vis, cell) == vis

\* dfs, line 127.
Unmark(vis, cell) == vis \ {cell}

\* dfs, lines 107-118: what a call dfs(r, c, index, visited) does on entry:
\* it returns True, returns False, or marks its cell and starts its loop.
DfsEntry(b, word, cell, index, vis) ==
    IF index = Len(word) THEN "true"
    ELSE IF ~InBounds(b, cell) THEN "false"
    ELSE IF At(b, cell) # word[index + 1] THEN "false"
    ELSE IF IsVisited(cell, vis) THEN "false"
    ELSE "mark"

\* The word find_all_words is at, and the cell the loop of dfs calls next.
CurrentWord == dictionary[wi + 1]

NextCell(frame) ==
    <<frame.cell[1] + WordDeltas[frame.d][1], frame.cell[2] + WordDeltas[frame.d][2]>>

WordInitSmall ==
    /\ board \in Grids(WordMaxCells, WordAlphabet) \cup {<<>>}
    /\ dictionary \in Dictionaries(WordsUpTo(WordMaxLen), WordsUpTo(1))

WordInitScenario ==
    /\ board = ScenarioBoard
    /\ dictionary \in ScenarioDictionaries

WordInit ==
    /\ WordInitSmall \/ WordInitScenario
    /\ wi = 0
    /\ wpos = 0
    /\ wstack = <<>>
    /\ visited = {}
    /\ result = {}
    /\ wreturned = <<>>
    /\ wpc = "words"

\* find_all_words, lines 148-149, and can_form_word_dfs, lines 88-131, on a
\* word that has a first character.
WordStart ==
    /\ wpc = "words"
    /\ wi < Len(dictionary)
    /\ CurrentWord # <<>>
    /\ wpos' = 0
    /\ wpc' = "scan"
    /\ UNCHANGED <<board, dictionary, wi, wstack, visited, result, wreturned>>

WordEmptySkipped ==
    /\ wpc = "words"
    /\ wi < Len(dictionary)
    /\ CurrentWord = <<>>
    /\ wi' = wi + 1
    /\ UNCHANGED <<board, dictionary, wpos, wstack, visited, result, wreturned, wpc>>

\* can_form_word_dfs, line 131: word[0] of an empty word raises IndexError,
\* which nothing catches.
WordEmptyError ==
    /\ wpc = "words"
    /\ wi < Len(dictionary)
    /\ CurrentWord = <<>>
    /\ wpc' = "error"
    /\ UNCHANGED <<board, dictionary, wi, wpos, wstack, visited, result, wreturned>>

\* find_all_words, line 151.
WordsReturn ==
    /\ wpc = "words"
    /\ wi = Len(dictionary)
    /\ wreturned' = <<result>>
    /\ wpc' = "done"
    /\ UNCHANGED <<board, dictionary, wi, wpos, wstack, visited, result>>

\* can_form_word_dfs, lines 132-134: a cell that is not first_char.
WordScanSkip ==
    /\ wpc = "scan"
    /\ wpos < NumCells(board)
    /\ At(board, CellAt(board, wpos)) # CurrentWord[1]
    /\ wpos' = wpos + 1
    /\ UNCHANGED <<board, dictionary, wi, wstack, visited, result, wreturned, wpc>>

\* can_form_word_dfs, lines 134-136: dfs(r, c, 0, set()) on a first_char
\* cell; the call passes its checks and marks the cell.
WordScanDfs ==
    /\ wpc = "scan"
    /\ wpos < NumCells(board)
    /\ At(board, CellAt(board, wpos)) = CurrentWord[1]
    /\ DfsEntry(board, CurrentWord, CellAt(board, wpos), 0, {}) = "mark"
    /\ visited' = {CellAt(board, wpos)}
    /\ wstack' = <<[cell |-> CellAt(board, wpos), index |-> 0, d |-> 1]>>
    /\ wpc' = "dfs"
    /\ UNCHANGED <<board, dictionary, wi, wpos, result, wreturned>>

\* can_form_word_dfs, line 139, and find_all_words, line 149: no start cell
\* gave the word.
WordScanFail ==
    /\ wpc = "scan"
    /\ wpos = NumCells(board)
    /\ wi' = wi + 1
    /\ wpc' = "words"
    /\ UNCHANGED <<board, dictionary, wpos, wstack, visited, result, wreturned>>

\* dfs, lines 121-124: the call on the next neighbour returns True at line
\* 108; every call of the chain returns True at line 124 without unmarking,
\* can_form_word_dfs returns True at line 137 (the set is dropped with it)
\* and find_all_words adds the word, line 150.
WordDfsMatch ==
    /\ wpc = "dfs"
    /\ Last(wstack).d <= Len(WordDeltas)
    /\ DfsEntry(board, CurrentWord, NextCell(Last(wstack)), Last(wstack).index + 1, visited) = "true"
    /\ result' = result \cup {CurrentWord}
    /\ wstack' = <<>>
    /\ visited' = {}
    /\ wi' = wi + 1
    /\ wpc' = "words"
    /\ UNCHANGED <<board, dictionary, wpos, wreturned>>

\* dfs, lines 121-123: the call on the next neighbour returns False at line
\* 111, 113 or 115, and the loop goes on.
WordDfsReject ==
    /\ wpc = "dfs"
    /\ Last(wstack).d <= Len(WordDeltas)
    /\ DfsEntry(board, CurrentWord, NextCell(Last(wstack)), Last(wstack).index + 1, visited) = "false"
    /\ wstack' = [wstack EXCEPT ![Len(wstack)].d = @ + 1]
    /\ UNCHANGED <<board, dictionary, wi, wpos, visited, result, wreturned, wpc>>

\* dfs, lines 121-123 and 118: the call on the next neighbour passes its
\* checks, marks its cell and starts its own loop.
WordDfsDescend ==
    /\ wpc = "dfs"
    /\ Last(wstack).d <= Len(WordDeltas)
    /\ DfsEntry(board, CurrentWord, NextCell(Last(wstack)), Last(wstack).index + 1, visited) = "mark"
    /\ visited' = visited \cup {NextCell(Last(wstack))}
    /\ wstack' = Append(wstack, [cell |-> NextCell(Last(wstack)),
                                 index |-> Last(wstack).index + 1,
                                 d |-> 1])
    /\ UNCHANGED <<board, dictionary, wi, wpos, result, wreturned, wpc>>

\* dfs, lines 127-128: the loop is over, the call unmarks its cell and returns
\* False, to the loop of its caller or, from the first call, to line 136.
WordDfsBacktrack ==
    /\ wpc = "dfs"
    /\ Last(wstack).d > Len(WordDeltas)
    /\ visited' = Unmark(visited, Last(wstack).cell)
    /\ IF Len(wstack) = 1
       THEN /\ wstack' = <<>>
            /\ wpos' = wpos + 1
            /\ wpc' = "scan"
       ELSE /\ wstack' = [Front(wstack) EXCEPT ![Len(wstack) - 1].d = @ + 1]
            /\ UNCHANGED <<wpos, wpc>>
    /\ UNCHANGED <<board, dictionary, wi, result, wreturned>>

FillIdle ==
    /\ matrix = <<>> /\ matrix0 = <<>> /\ start = <<0, 0>> /\ target_color = "X"
    /\ replacement_color = "X" /\ stack = <<>> /\ pops = 0 /\ paints = <<>>
    /\ fpc = "idle"

LongIdle ==
    /\ lmatrix = <<>> /\ start_char = 0 /\ lpos = 0 /\ longest_path = 0
    /\ lstack = <<>> /\ lreturned = -1 /\ lpc = "idle"

WordIdle ==
    /\ board = <<>> /\ dictionary = <<>> /\ wi = 0 /\ wpos = 0 /\ wstack = <<>>
    /\ visited = {} /\ result = {} /\ wreturned = <<>> /\ wpc = "idle"

FillNext ==
    \/ FillReturnEarly /\ UNCHANGED <<lvars, wvars>>
    \/ FillPaintStart /\ UNCHANGED <<lvars, wvars>>
    \/ FillPop /\ UNCHANGED <<lvars, wvars>>
    \/ FillReturn /\ UNCHANGED <<lvars, wvars>>

FillStart == FillInit /\ LongIdle /\ WordIdle

FillSpec == FillStart /\ [][FillNext]_vars

LongNext ==
    \/ LongScanSkip /\ UNCHANGED <<fvars, wvars>>
    \/ LongScanCall /\ UNCHANGED <<fvars, wvars>>
    \/ LongReturn /\ UNCHANGED <<fvars, wvars>>
    \/ LongDfsDescend /\ UNCHANGED <<fvars, wvars>>
    \/ LongDfsReturn /\ UNCHANGED <<fvars, wvars>>

LongStart == LongInit /\ FillIdle /\ WordIdle

\* The program is sequential: a step that can be taken is taken.
LongSpec == LongStart /\ [][LongNext]_vars /\ WF_vars(LongNext)

WordNext ==
    \/ WordStart /\ UNCHANGED <<fvars, lvars>>
    \/ WordEmptyError /\ UNCHANGED <<fvars, lvars>>
    \/ WordsReturn /\ UNCHANGED <<fvars, lvars>>
    \/ WordScanSkip /\ UNCHANGED <<fvars, lvars>>
    \/ WordScanDfs /\ UNCHANGED <<fvars, lvars>>
    \/ WordScanFail /\ UNCHANGED <<fvars, lvars>>
    \/ WordDfsMatch /\ UNCHANGED <<fvars, lvars>>
    \/ WordDfsReject /\ UNCHANGED <<fvars, lvars>>
    \/ WordDfsDescend /\ UNCHANGED <<fvars, lvars>>
    \/ WordDfsBacktrack /\ UNCHANGED <<fvars, lvars>>

WordBegin == WordInit /\ FillIdle /\ LongIdle

WordSpec == WordBegin /\ [][WordNext]_vars

(***************************************************************************)
(* Flood fill: properties                                                  *)
(***************************************************************************)
Abs(n) == IF n < 0 THEN -n ELSE n

Adjacent4(a, b) == Abs(a[1] - b[1]) + Abs(a[2] - b[2]) = 1

\* The cells 4-connected to the cells of S through cells holding target in m.
RECURSIVE Grow4(_, _, _)
Grow4(m, target, S) ==
    LET T == S \cup {c \in CellsOf(m) :
                        At(m, c) = target /\ \E s \in S : Adjacent4(s, c)}
    IN  IF T = S THEN S ELSE Grow4(m, target, T)

\* The cells reachable from s through cells that hold target in m.
Region(m, s, target) ==
    IF At(m, s) = target THEN Grow4(m, target, {s}) ELSE {}

FillRegion == Region(matrix0, start, target_color)

\* C1: when flood_fill_dfs has returned, every cell 4-connected-reachable
\* from the start through cells that originally held target_color holds
\* replacement_color, and every other cell holds the color it had before.
C1_FloodFillRegion ==
    fpc = "done" =>
        /\ CellsOf(matrix) = CellsOf(matrix0)
        /\ \A cell \in CellsOf(matrix0) :
              At(matrix, cell) = IF cell \in FillRegion THEN replacement_color
                                 ELSE At(matrix0, cell)

\* A returned fill of a region of four or more cells that left alone a
\* target-colored cell outside the region and a cell of a third color.
C1_Witness ==
    /\ fpc = "done"
    /\ target_color # replacement_color
    /\ Cardinality(FillRegion) >= 4
    /\ \E cell \in CellsOf(matrix0) \ FillRegion : At(matrix0, cell) = target_color
    /\ \E cell \in CellsOf(matrix0) : At(matrix0, cell) \notin {target_color, replacement_color}

\* C2: if the start cell does not hold target_color, flood_fill_dfs returns
\* without painting or pushing anything: the matrix is the one it was given.
C2_StartMismatchNoOp ==
    At(matrix0, start) # target_color =>
        /\ matrix = matrix0
        /\ stack = <<>>
        /\ pops = 0
        /\ fpc \in {"start", "done"}

\* A returned call whose start cell already held replacement_color and had
\* a 4-neighbour of target_color.
C2_Witness ==
    /\ fpc = "done"
    /\ At(matrix0, start) = replacement_color
    /\ replacement_color # target_color
    /\ \E cell \in CellsOf(matrix0) :
          Adjacent4(start, cell) /\ At(matrix0, cell) = target_color

\* C3: with target_color = replacement_color and the start cell of that
\* color, the call is a no-op: once the start cell has been popped and
\* re-examined nothing is on the stack, and the matrix is unchanged.
C3_SameColorStops ==
    (target_color = replacement_color /\ At(matrix0, start) = target_color) =>
        /\ matrix = matrix0
        /\ pops >= 1 => stack = <<>>

\* C7: no cell is painted (and pushed) more than once, and the stack loop
\* pops at most rows x cols times.
C7_NeverRevisited ==
    /\ \A cell \in CellsOf(matrix0) : paints[cell] <= 1
    /\ pops <= NumRows(matrix0) * NumCols(matrix0)

\* With two different colors the loop pops each cell of the region once: the
\* cut at FillMaxPops is never reached and the call returns.
FillCapUnused ==
    target_color # replacement_color =>
        /\ \A cell \in CellsOf(matrix0) : paints[cell] <= 1
        /\ pops <= Cardinality(FillRegion)
        /\ fpc = "loop" => (stack # <<>> \/ pops = Cardinality(FillRegion))

\* With target_color = replacement_color and a region of two or more cells
\* the stack is never empty after the first paint: the call does not return.
FillSameColorLoops ==
    (target_color = replacement_color /\ Cardinality(FillRegion) >= 2) =>
        /\ fpc # "done"
        /\ fpc = "loop" => stack # <<>>

(***************************************************************************)
(* Longest path: properties                                                *)
(***************************************************************************)
Adjacent8(a, b) == a # b /\ Abs(a[1] - b[1]) <= 1 /\ Abs(a[2] - b[2]) <= 1

\* The paths of n cells that begin at a cell holding ch and step each time to
\* an 8-neighbour holding the code point one greater.
RECURSIVE Chains(_, _, _)
Chains(m, ch, n) ==
    IF n = 1 THEN {<<c>> : c \in {d \in CellsOf(m) : At(m, d) = ch}}
    ELSE {Append(p, c) : <<p, c>> \in
            {x \in Chains(m, ch, n - 1) \X CellsOf(m) :
                Adjacent8(Last(x[1]), x[2]) /\ At(m, x[2]) = At(m, Last(x[1])) + 1}}

SetMax(S) == CHOOSE x \in S : \A y \in S : y <= x

MaxChain(m, ch) ==
    LET ns == {n \in 1 .. NumCells(m) : Chains(m, ch, n) # {}}
    IN  IF ns = {} THEN 0 ELSE SetMax(ns)

\* C4: find_longest_consecutive_path returns, and what it returns is the
\* greatest number of cells of a path that begins at a start_char cell and
\* steps to 8-neighbours holding the next code point (0 without such a cell).
C4_ReturnsMaxChain ==
    lpc \in {"done", "error"} =>
        /\ lpc = "done"
        /\ lreturned = MaxChain(lmatrix, start_char)

\* Whenever the function does return, it returns that maximum.
LongReturnedIsMaxChain ==
    lpc = "done" => lreturned = MaxChain(lmatrix, start_char)

\* It fails only on a matrix where a chain from a start_char cell reaches a
\* cell holding MaxCodePoint.
LongErrorOnlyAtMaxCodePoint ==
    lpc = "error" =>
        \E n \in 1 .. NumCells(lmatrix) : \E p \in Chains(lmatrix, start_char, n) :
            At(lmatrix, Last(p)) = MaxCodePoint

LongChain ==
    /\ Len(lstack) <= NumCells(lmatrix)
    /\ \A k \in 1 .. Len(lstack) - 1 :
          /\ At(lmatrix, lstack[k + 1].cell) = At(lmatrix, lstack[k].cell) + 1
          /\ Adjacent8(lstack[k].cell, lstack[k + 1].cell)
    /\ \A j, k \in 1 .. Len(lstack) : j # k => lstack[j].cell # lstack[k].cell

\* C9: along the chain of nested dfs_longest calls the characters increase
\* by one code point per step, no cell occurs twice, the depth never exceeds
\* the number of cells, and the descent ends.
C9_DescentTerminates == [](LongChain) /\ <>(lpc \in {"done", "error"})

\* Three nested calls, the outer one with two children to try.
C9_Witness ==
    /\ lpc = "dfs"
    /\ Len(lstack) >= 3
    /\ Len(lstack[1].children) >= 2

(***************************************************************************)
(* Word search: properties                                                 *)
(***************************************************************************)
CellsOn(p) == {p[k] : k \in 1 .. Len(p)}

\* The sequences of n pairwise distinct cells, consecutive cells 8-adjacent,
\* whose characters are the first n letters of w.
RECURSIVE WordPaths(_, _, _)
WordPaths(b, w, n) ==
    IF n = 1 THEN {<<c>> : c \in {d \in CellsOf(b) : At(b, d) = w[1]}}
    ELSE {Append(x[1], x[2]) : x \in
            {y \in WordPaths(b, w, n - 1) \X CellsOf(b) :
                /\ Adjacent8(Last(y[1]), y[2])
                /\ At(b, y[2]) = w[n]
                /\ y[2] \notin CellsOn(y[1])}}

Traceable(b, w) == Len(w) >= 1 /\ WordPaths(b, w, Len(w)) # {}

Occurs(b, letter) == \E c \in CellsOf(b) : At(b, c) = letter

Words == {dictionary[k] : k \in 1 .. Len(dictionary)}

\* C5: find_all_words returns exactly the dictionary words that a sequence
\* of pairwise distinct, consecutively 8-adjacent cells spells; a word of one
\* character is found iff the character occurs in the grid, and a word of
\* more than rows x cols characters is never found.
C5_FindsTraceableWords ==
    wpc = "done" =>
        /\ wreturned = <<{w \in Words : Traceable(board, w)}>>
        /\ \A w \in Words :
              /\ Len(w) = 1 => (w \in wreturned[1] <=> Occurs(board, w[1]))
              /\ Len(w) > NumCells(board) => w \notin wreturned[1]

\* A returned search that found a word and did not find another of three
\* letters, all of which occur in the grid and which is short enough to fit.
C5_Witness ==
    /\ wpc = "done"
    /\ wreturned[1] # {}
    /\ \E w \in Words \ wreturned[1] :
          /\ Len(w) >= 3
          /\ Len(w) <= NumCells(board)
          /\ \A k \in 1 .. Len(w) : Occurs(board, w[k])

InScenario == board = ScenarioBoard /\ Words = {CAT, ACT, DOG}

\* C6 as stated: on [[C,A,T],[A,T,C]] with {CAT, ACT, DOG}, find_all_words
\* returns exactly {CAT}.
C6_ScenarioOnlyCat == (InScenario /\ wpc = "done") => wreturned = <<{CAT}>>

\* C6 as amended: on [[C,A,T],[A,T,C]] with {CAT, ACT, DOG}, find_all_words
\* returns exactly {CAT, ACT}: A(0,1), C(0,0), T(1,1) spells ACT.
C6_ScenarioCatAndAct == (InScenario /\ wpc = "done") => wreturned = <<{CAT, ACT}>>

C6_Witness == InScenario /\ wpc = "done"

C10_EmptyWordIsError ==
    /\ <<>> \in Words => (wreturned = <<>> /\ wpc # "done")
    /\ wpc = "error" => (CurrentWord = <<>> /\ wreturned = <<>>)
    /\ (wpc = "words" /\ wi < Len(dictionary) /\ CurrentWord = <<>>) =>
          (ENABLED WordEmptyError /\ ~ENABLED WordStart)

\* The error after another word of the dictionary was found.
C10_Witness ==
    /\ wpc = "error"
    /\ result # {}

\* The error on the empty grid.
WordErrorOnEmptyGrid == wpc = "error" /\ board = <<>>

=============================================================================
